---- MODULE Spec2Model ----
(***************************************************************************)
(* OpenAlex MCP tool: the tool operations of app.py, the retrieval facades *)
(* of openalex_modules and the HTTP layer of slr_modules/api_clients.py,   *)
(* as a state machine.  One invocation is a call of a tool operation (or   *)
(* of an API-client search method); it blocks on every GET and on every    *)
(* backoff sleep, which are the steps of the machine.                      *)
(***************************************************************************)
EXTENDS Integers, Sequences, FiniteSets, TLC

VARIABLES retries, max_per_page, default_per_page, active,
          pc, call, req, attempt, gets, sent, slept, last, allTransient,
          httpOut, clientOut, facadeOut, toolOut, uiOut, normed

vars == <<retries, max_per_page, default_per_page, active,
          pc, call, req, attempt, gets, sent, slept, last, allTransient,
          httpOut, clientOut, facadeOut, toolOut, uiOut, normed>>

config == <<retries, max_per_page, default_per_page, active>>

(***************************************************************************)
(* Bounds of the exploration.                                              *)
(***************************************************************************)
MaxRetries == 2

Invs == {1, 2}

RetryValues == (0 - 1) .. MaxRetries

MaxPerPageValues == {50, 200}

DefaultPerPageValues == {10, 25}

MaxResultsValues == {0 - 1, 0, 1, 2, 20, 21, 100}

PerPageValues == {0 - 1, 0, 5, 500}

YearValues == {2020, 2024}

\* the Max Results field of the author search form (1 to 20, 5 by default)
UiMaxResultsValues == {1, 5}

ResultCounts == {0, 1, 3, 21, 100}

BadPositions == {0, 1, 2}

BadShapes == {"malformed", "bad_key"}

LevelValues == {0, 1}

OpenAlexIds == {"A5023888391", "C41008148"}

FailStatuses == {400, 404, 500, 503}

(***************************************************************************)
(* Program constants.                                                      *)
(***************************************************************************)
ApiLimit == 50

ToolMaxResults == 20

\* related_concepts[:10]
RelatedLimit == 10

\* the most related concepts a raw concept has
MaxRelated == 12

(***************************************************************************)
(* Python values: an Optional is <<>> (None) or <<v>>.                     *)
(***************************************************************************)
None == <<>>

Some(v) == <<v>>

Truthy(opt) == opt # None /\ opt[1] # 0

PyOr(opt, default) == IF Truthy(opt) THEN opt[1] ELSE default

Min(a, b) == IF a <= b THEN a ELSE b

Max(a, b) == IF a >= b THEN a ELSE b

\* s[:k] of Python: a negative k counts from the end
PySlice(s, k) ==
  IF k >= 0 THEN SubSeq(s, 1, Min(k, Len(s)))
            ELSE SubSeq(s, 1, Max(Len(s) + k, 0))

RECURSIVE Pow2(_)
Pow2(k) == IF k <= 0 THEN 1 ELSE 2 * Pow2(k - 1)

(***************************************************************************)
(* Strings that the code takes apart are sequences of tokens.              *)
(***************************************************************************)
HttpsPrefix == <<"http", "s", "://", "doi", ".org/">>

HttpPrefix == <<"http", "://", "doi", ".org/">>

DoiPrefix == <<"doi", ":">>

BareDoi == <<"10.1038/", "nature12373">>

StartsWith(s, p) == Len(s) >= Len(p) /\ SubSeq(s, 1, Len(p)) = p

Drop(s, n) == SubSeq(s, n + 1, Len(s))

\* str.replace(pat, ''): leftmost, non-overlapping occurrences are removed
RECURSIVE Remove(_, _)
Remove(s, pat) ==
  IF s = <<>> THEN <<>>
  ELSE IF StartsWith(s, pat) THEN Remove(Drop(s, Len(pat)), pat)
  ELSE <<Head(s)>> \o Remove(Tail(s), pat)

RECURSIVE LStrip(_)
LStrip(s) == IF s # <<>> /\ Head(s) = " " THEN LStrip(Tail(s)) ELSE s

RECURSIVE RStrip(_)
RStrip(s) ==
  IF s # <<>> /\ s[Len(s)] = " " THEN RStrip(SubSeq(s, 1, Len(s) - 1)) ELSE s

Strip(s) == LStrip(RStrip(s))

clean_doi(doi) ==
  IF doi = <<>> THEN <<>>
  ELSE Strip(Remove(Remove(Remove(doi, HttpsPrefix), HttpPrefix), DoiPrefix))

DoiValues ==
  { BareDoi, HttpsPrefix \o BareDoi, HttpPrefix \o BareDoi,
    DoiPrefix \o BareDoi }

\* other strings a caller may pass for a DOI: padded with blanks, two prefixes
\* in a row, and a prefix inside another occurrence of itself
\* ('doidoi::10.1038/nature12373', 'httphttp://doi.org/s://doi.org/10.1038/...')
OddDoiValues ==
  { <<" ">> \o DoiPrefix \o BareDoi \o <<" ">>,
    DoiPrefix \o HttpsPrefix \o BareDoi,
    <<"doi", "doi", ":", ":">> \o BareDoi,
    <<"http", "http", "://", "doi", ".org/", "s", "://", "doi", ".org/">> \o BareDoi }

(***************************************************************************)
(* Requests, responses and results.                                        *)
(***************************************************************************)
SearchTools ==
  {"search_openalex_papers", "search_openalex_authors",
   "search_openalex_concepts"}

ToolOps == SearchTools \cup {"get_publication_by_doi"}

ClientOps == {"search_works", "search_authors", "search_concepts"}

\* methods of the retrieval facades that no tool operation reaches
GetByIdOps ==
  {"OpenAlexAuthorRetriever.get_by_openalex_id",
   "OpenAlexConceptRetriever.get_by_openalex_id"}

ConceptSearchOps ==
  {"search_openalex_concepts", "OpenAlexConceptRetriever.search_concepts"}

FacadeOps == GetByIdOps \cup {"OpenAlexConceptRetriever.search_concepts"}

NoCall ==
  [op |-> "none", max_results |-> 0, start_year |-> None, end_year |-> None,
   doi |-> <<>>, per_page |-> None, openalex_id |-> "", level |-> None,
   ui |-> FALSE, filters |-> <<>>]

NoReq == [endpoint |-> <<>>, search |-> FALSE, per_page |-> None, filter |-> None]

NoOutcome == [kind |-> "none", status |-> 0, n |-> 0, bad |-> 0, shape |-> "good"]

\* the shapes of the one record of a page that is not complete
OddShapes == BadShapes \cup {"minimal"}

\* three more complete records, with other values than the "good" one: see
\* RawWork, RawAuthor and RawConcept
AltShapes == {"alt1", "alt2", "alt3"}

OkOutcomes ==
  { [kind |-> "ok", status |-> 200, n |-> n, bad |-> b, shape |-> s] :
      n \in ResultCounts, b \in BadPositions, s \in OddShapes }
  \cup
  { [kind |-> "ok", status |-> 200, n |-> 1, bad |-> 1, shape |-> s] : s \in AltShapes }

FailOutcomes ==
  { [kind |-> k, status |-> 0, n |-> 0, bad |-> 0, shape |-> "good"] :
      k \in {"Timeout", "ConnectionError"} }
  \cup
  { [kind |-> "HTTPError", status |-> st, n |-> 0, bad |-> 0, shape |-> "good"] :
      st \in FailStatuses }

\* an ok outcome without a malformed record is the same for every shape
Outcomes ==
  { o \in OkOutcomes : (o.bad = 0 \/ o.bad > o.n) => (o.bad = 0 /\ o.shape = "malformed") }
  \cup FailOutcomes

\* the few responses drawn when caller 1 does not run alone
PairOutcomes ==
  { o \in Outcomes :
      /\ o.kind = "ok" => (o.n <= 1 /\ o.bad = 0)
      /\ o.kind = "ConnectionError" => FALSE
      /\ o.kind = "HTTPError" => o.status \in {404, 500} }

PairMaxResults == {2}

\* the raw results of a response body: record k is malformed when k = bad;
\* the levels of the records alternate
RawResults(o) ==
  [k \in 1 .. o.n |->
     [id |-> k, shape |-> IF k = o.bad THEN o.shape ELSE "good",
      level |-> k % 2]]

Pending == [kind |-> "pending", exc |-> "", status |-> 0, none |-> FALSE, items |-> <<>>]

Return(items) == [kind |-> "return", exc |-> "", status |-> 0, none |-> FALSE, items |-> items]

ReturnNone == [kind |-> "return", exc |-> "", status |-> 0, none |-> TRUE, items |-> <<>>]

Raise(exc, status) == [kind |-> "raise", exc |-> exc, status |-> status, none |-> FALSE, items |-> <<>>]

(***************************************************************************)
(* HTTP layer: OpenAlexAPIClient._make_request and the search methods.     *)
(***************************************************************************)
\* the JSON body of a successful response: a result page for a search, one
\* work (or an empty object) for the single-item endpoint
HttpBody(r, o) ==
  IF r.search THEN RawResults(o) ELSE PySlice(RawResults(o), 1)

\* the exception response.raise_for_status() / session.get() raised
HttpFailure(o) == Raise(o.kind, o.status)

\* mutant: the last attempt is recognised one iteration late
LastAttemptLate(a, r) == a = r + 1

\* `if attempt == self.retries`: the failure is re-raised, not retried
LastAttempt(a, r) == a = r

\* mutant: a linear instead of an exponential backoff
WaitTimeLinear(a) == 2 * a

\* wait_time = 2 ** attempt
WaitTime(a) == Pow2(a)

\* range(self.retries + 1) still has an element after a
LoopContinues(a, r) == a + 1 < r + 1

\* 'per-page': min(per_page or self.default_per_page, self.max_per_page)
PerPageParam(per_page) == Min(PyOr(per_page, default_per_page), max_per_page)

RECURSIVE JoinStr(_, _)
JoinStr(strs, sep) ==
  IF strs = <<>> THEN ""
  ELSE IF Len(strs) = 1 THEN strs[1]
  ELSE strs[1] \o sep \o JoinStr(Tail(strs), sep)

\* a filter entry: key and a string value, or key and a list of values, each
\* element of a list being the tokens of its text
ScalarFilter(key, value) == [key |-> key, isList |-> FALSE, value |-> <<value>>]

ListFilter(key, elements) == [key |-> key, isList |-> TRUE, value |-> elements]

\* str(element)
Text(tokens) == JoinStr(tokens, "")

\* mutant: the elements of a list value are joined by commas
FilterEntryCommaList(f) ==
  IF f.isList
  THEN f.key \o ":" \o JoinStr([k \in 1 .. Len(f.value) |-> Text(f.value[k])], ",")
  ELSE f.key \o ":" \o f.value[1]

\* one element of filter_strings: '+'.join(map(str, value)) for a list
FilterEntry(f) ==
  IF f.isList
  THEN f.key \o ":" \o JoinStr([k \in 1 .. Len(f.value) |-> Text(f.value[k])], "+")
  ELSE f.key \o ":" \o f.value[1]

\* value.replace(op, '') if str(value).startswith(op) else str(value)
Unprefixed(tokens, op) ==
  IF StartsWith(tokens, <<op>>) THEN Text(Remove(tokens, <<op>>)) ELSE Text(tokens)

\* one element of filter_strings of search_works: a publication_year list of
\* two elements is a range
WorksFilterEntry(f) ==
  IF f.isList /\ f.key = "publication_year" /\ Len(f.value) = 2
  THEN f.key \o ":" \o Unprefixed(f.value[1], ">=") \o "-" \o Unprefixed(f.value[2], "<=")
  ELSE FilterEntry(f)

\* params['filter'], absent when no filters are given
FilterParam(filters) ==
  IF filters = <<>> THEN None
  ELSE Some(JoinStr([k \in 1 .. Len(filters) |-> FilterEntry(filters[k])], ","))

WorksFilterParam(filters) ==
  IF filters = <<>> THEN None
  ELSE Some(JoinStr([k \in 1 .. Len(filters) |-> WorksFilterEntry(filters[k])], ","))

\* the filters a search method of the API client is given
ThreeScalars ==
  << ScalarFilter("publication_year", "2023"), ScalarFilter("type", "article"),
     ScalarFilter("is_oa", "true") >>

TypeList == << ListFilter("type", << <<"article">>, <<"review">> >>) >>

ScalarThenList ==
  << ScalarFilter("is_oa", "true"), ListFilter("level", << <<"1">>, <<"2">> >>) >>

ListThenScalar ==
  << ListFilter("level", << <<"1">>, <<"2">> >>), ScalarFilter("is_oa", "true") >>

ThreeYears ==
  << ListFilter("publication_year", << <<"2020">>, <<"2021">>, <<"2022">> >>) >>

YearRange ==
  << ListFilter("publication_year", << <<">=", "2020">>, <<"<=", "2024">> >>) >>

FilterValues ==
  {ThreeScalars, TypeList, ScalarThenList, ListThenScalar, ThreeYears, YearRange}

search_works(filters, per_page) ==
  [endpoint |-> <<"/works">>, search |-> TRUE,
   per_page |-> Some(PerPageParam(per_page)), filter |-> WorksFilterParam(filters)]

search_authors(filters, per_page) ==
  [endpoint |-> <<"/authors">>, search |-> TRUE,
   per_page |-> Some(PerPageParam(per_page)), filter |-> FilterParam(filters)]

search_concepts(filters, per_page) ==
  [endpoint |-> <<"/concepts">>, search |-> TRUE,
   per_page |-> Some(PerPageParam(per_page)), filter |-> FilterParam(filters)]

\* mutant: the DOI goes into the path as it is
DoiEndpointBare(doi) ==
  [endpoint |-> <<"/works/">> \o doi, search |-> FALSE,
   per_page |-> None, filter |-> None]

\* the endpoint get_work_by_doi requests
DoiEndpoint(doi) ==
  LET d1 == IF StartsWith(doi, HttpsPrefix) THEN doi
            ELSE HttpsPrefix \o (IF StartsWith(doi, DoiPrefix) THEN Drop(doi, 2) ELSE doi)
  IN  [endpoint |-> <<"/works/">> \o d1, search |-> FALSE,
       per_page |-> None, filter |-> None]

\* mutant: every client error counts as not found
IsNotFoundAny4xx(h) == h.exc = "HTTPError" /\ h.status >= 400 /\ h.status < 500

\* `e.response.status_code == 404` of an HTTPError
IsNotFound(h) == h.exc = "HTTPError" /\ h.status = 404

\* get_work_by_doi: the outcome of _make_request, a 404 turned into None
get_work_by_doi(h) ==
  IF h.kind = "raise" /\ h.exc = "HTTPError" /\ IsNotFound(h) THEN ReturnNone ELSE h

(***************************************************************************)
(* Normalizers and retrieval facades.                                      *)
(***************************************************************************)
\* a value of a raw record: the key is missing, or holds null, a string, an
\* integer, a list or a dict; val is read only for the kinds that carry it
F(kind, val) == [kind |-> kind, val |-> val]

Absent(f) == [kind |-> "missing", val |-> f.val]

\* mutant: dict.get(key) without a default
DictGetNoDefault(f, default) ==
  IF f.kind = "missing" THEN [kind |-> "null", val |-> default.val] ELSE f

\* dict.get(key, default)
DictGet(f, default) == IF f.kind = "missing" THEN default ELSE f

\* `not value` for None, '', [] and {}; it is not asked of an integer
Falsy(f) == f.kind = "null" \/ (f.kind \in {"str", "list", "dict"} /\ f.val = <<>>)

Null == F("null", <<>>)

Str(tokens) == F("str", tokens)

IntV(n) == F("int", n)

\* a dict with keys: val holds the record of its items; {} has val <<>>
Dict(items) == F("dict", <<items>>)

EmptyDict == F("dict", <<>>)

\* the item of a dict under a key, missing when the dict has no such key
Key(d, k) ==
  IF d.val = <<>> \/ k \notin DOMAIN d.val[1] THEN F("missing", <<>>) ELSE d.val[1][k]

\* d.get(k): None for a missing key
Get(d, k) == DictGet(Key(d, k), Null)

\* the forms of an identifier string: the full URL, the URL with a trailing
\* slash, the bare identifier
IdUrl(id) == <<"https://openalex.org", "/", id>>

IdUrlSlash(id) == <<"https://openalex.org", "/", id, "/">>

IdBare(id) == <<id>>

\* the URL of the API rather than of the entity page
IdApiUrl(id, entity) == <<"https://api.openalex.org", "/", entity, "/", id>>

\* the path segments that match [A-Z]\d+ ; no other token of an identifier
\* string does, and "/" is a token of its own
IdSegments == {"W2741809807", "A5023888391", "C41008148", "C154945302", "I63966007"}

NatureSource ==
  Dict([display_name |-> Str(<<"Nature">>), type |-> Str(<<"journal">>),
        issn_l |-> Str(<<"0028-0836">>), is_oa |-> F("bool", <<FALSE>>)])

ArxivSource ==
  Dict([display_name |-> Str(<<"arXiv">>), type |-> Str(<<"repository">>),
        issn_l |-> Null, is_oa |-> F("bool", <<TRUE>>)])

\* a source the API gives no name for
NamelessSource ==
  Dict([display_name |-> Null, type |-> Str(<<"journal">>),
        issn_l |-> Str(<<"1234-5678">>), is_oa |-> F("bool", <<FALSE>>)])

\* the raw work of each shape: complete, {} (every optional field missing),
\* 'authorships': null, 'doi': 123; alt1 is a work with an empty primary
\* location and a best open-access location, alt2 a work whose primary source
\* has no name and that has no open-access location, alt3 a work whose
\* primary location has no source
RawWork(shape) ==
  LET good ==
        [id |-> Str(IdUrl("W2741809807")),
         title |-> F("str", <<"Deep learning">>),
         doi |-> F("str", HttpsPrefix \o BareDoi),
         cited_by_count |-> F("int", 42),
         abstract_inverted_index |->
           F("dict", << [word |-> "Deep", positions |-> <<0>>],
                        [word |-> "learning", positions |-> <<1>>] >>),
         authorships |-> F("list", <<"Ada Lovelace">>),
         primary_location |-> Dict([source |-> NatureSource]),
         best_oa_location |-> Dict([source |-> ArxivSource]),
         concepts |-> F("list", <<>>),
         open_access |-> F("dict", <<>>),
         referenced_works |-> F("list", <<>>),
         related_works |-> F("list", <<>>)]
  IN  CASE shape = "minimal" -> [k \in DOMAIN good |-> Absent(good[k])]
        [] shape = "malformed" -> [good EXCEPT !.authorships = F("null", <<>>)]
        [] shape = "bad_key" -> [good EXCEPT !.doi = F("int", <<>>)]
        [] shape = "alt1" ->
             [good EXCEPT !.id = Str(IdUrlSlash("W2741809807")),
                          !.abstract_inverted_index =
                            F("dict", << [word |-> "learning", positions |-> <<1, 3>>],
                                         [word |-> "about", positions |-> <<2>>],
                                         [word |-> "Deep", positions |-> <<0>>] >>),
                          !.primary_location = EmptyDict]
        [] shape = "alt2" ->
             [good EXCEPT !.id = Str(IdBare("W2741809807")),
                          !.abstract_inverted_index =
                            F("dict", << [word |-> "Abstract", positions |-> <<0>>] >>),
                          !.primary_location = Dict([source |-> NamelessSource]),
                          !.best_oa_location = Absent(Null)]
        [] shape = "alt3" ->
             [good EXCEPT !.id = Str(IdApiUrl("W2741809807", "works")),
                          !.abstract_inverted_index =
                            F("dict", << [word |-> "b", positions |-> <<1, 3>>],
                                         [word |-> "a", positions |-> <<0, 2, 4>>] >>),
                          !.primary_location = Dict([source |-> Null])]
        [] OTHER -> good

\* the raw author of each shape: complete, {}, 'x_concepts': null, 'id': 5;
\* alt1 is an author without works and without a last known institution, alt2
\* an author whose institution has no name, alt3 an author whose institution
\* is {}
RawAuthor(shape) ==
  LET good ==
        [id |-> Str(IdUrl("A5023888391")),
         display_name |-> F("str", <<"Ada Lovelace">>),
         orcid |-> Str(<<"https://orcid.org/0000-0002-1825-0097">>),
         works_count |-> IntV(3),
         cited_by_count |-> IntV(10),
         last_known_institution |->
           Dict([id |-> Str(IdUrl("I63966007")), display_name |-> Str(<<"MIT">>),
                 country_code |-> Str(<<"US">>), type |-> Str(<<"education">>)]),
         x_concepts |-> F("list", <<>>),
         counts_by_year |-> F("list", <<>>)]
  IN  CASE shape = "minimal" -> [k \in DOMAIN good |-> Absent(good[k])]
        [] shape = "malformed" -> [good EXCEPT !.x_concepts = F("null", <<>>)]
        [] shape = "bad_key" -> [good EXCEPT !.id = F("int", <<>>)]
        [] shape = "alt1" ->
             [good EXCEPT !.id = Str(IdUrlSlash("A5023888391")),
                          !.orcid = Null,
                          !.works_count = IntV(0),
                          !.cited_by_count = IntV(5),
                          !.last_known_institution = Null]
        [] shape = "alt2" ->
             [good EXCEPT !.id = Str(IdBare("A5023888391")),
                          !.works_count = IntV(8),
                          !.cited_by_count = IntV(3),
                          !.last_known_institution =
                            Dict([id |-> Str(IdUrlSlash("I63966007")),
                                  country_code |-> Str(<<"US">>)])]
        [] shape = "alt3" ->
             [good EXCEPT !.id = Str(IdApiUrl("A5023888391", "authors")),
                          !.works_count = IntV(7),
                          !.cited_by_count = IntV(100),
                          !.last_known_institution = EmptyDict]
        [] OTHER -> good

\* the k-th related concept of a raw concept
RelatedConcept(k) ==
  Dict([id |-> Str(IdUrl("C154945302")),
        display_name |-> Str(<<"Artificial intelligence">>),
        level |-> IntV(1), score |-> IntV(k)])

\* the raw concept of each shape: complete, {}, 'related_concepts': null,
\* 'id': 5; alt1 is a concept without works and with MaxRelated related
\* concepts, alt2 a concept with two, alt3 one with RelatedLimit
RawConcept(shape) ==
  LET good ==
        [id |-> Str(IdUrl("C41008148")),
         display_name |-> F("str", <<"Computer science">>),
         works_count |-> IntV(3),
         cited_by_count |-> IntV(10),
         ancestors |-> F("list", <<>>),
         related_concepts |-> F("list", <<>>),
         counts_by_year |-> F("list", <<>>)]
  IN  CASE shape = "minimal" -> [k \in DOMAIN good |-> Absent(good[k])]
        [] shape = "malformed" -> [good EXCEPT !.related_concepts = F("null", <<>>)]
        [] shape = "bad_key" -> [good EXCEPT !.id = F("int", <<>>)]
        [] shape = "alt1" ->
             [good EXCEPT !.id = Str(IdUrlSlash("C41008148")),
                          !.works_count = IntV(0),
                          !.cited_by_count = IntV(5),
                          !.related_concepts =
                            F("list", [k \in 1 .. MaxRelated |-> RelatedConcept(k)])]
        [] shape = "alt2" ->
             [good EXCEPT !.id = Str(IdBare("C41008148")),
                          !.works_count = IntV(8),
                          !.cited_by_count = IntV(3),
                          !.related_concepts =
                            F("list", <<RelatedConcept(1), RelatedConcept(2)>>)]
        [] shape = "alt3" ->
             [good EXCEPT !.id = Str(IdApiUrl("C41008148", "concepts")),
                          !.works_count = IntV(7),
                          !.cited_by_count = IntV(100),
                          !.related_concepts =
                            F("list", [k \in 1 .. RelatedLimit |-> RelatedConcept(k)])]
        [] OTHER -> good

\* extract_openalex_id: '' for a falsy value, re.search raises TypeError on a
\* value that is no string
ExtractIdRaises(f) == ~Falsy(f) /\ f.kind # "str"

\* mutant: the pattern has no optional trailing slash
IdMatchNoSlash(url, n) ==
  IF n >= 2 /\ url[n - 1] = "/" /\ url[n] \in IdSegments THEN <<url[n]>>
  ELSE <<>>

\* group 1 of re.search(r'/([A-Z]\d+)/?$', url) for a url of n tokens, <<>>
\* when the pattern does not match
IdMatch(url, n) ==
  IF n >= 2 /\ url[n - 1] = "/" /\ url[n] \in IdSegments THEN <<url[n]>>
  ELSE IF n >= 3 /\ url[n] = "/" /\ url[n - 2] = "/" /\ url[n - 1] \in IdSegments
  THEN <<url[n - 1]>>
  ELSE <<>>

\* match.group(1) if match else openalex_url
GroupOrUrl(match, url) == IF match # <<>> THEN match ELSE url

extract_openalex_id(f) ==
  IF Falsy(f) THEN <<>> ELSE GroupOrUrl(IdMatch(f.val, Len(f.val)), f.val)

\* clean_doi on a raw value: '' for a falsy value, .replace raises
\* AttributeError on a value that is no string
CleanDoiRaises(f) == ~Falsy(f) /\ f.kind # "str"

CleanDoi(f) == IF Falsy(f) THEN <<>> ELSE clean_doi(f.val)

\* iterating, slicing or len() of a value that is no sequence
NotIterable(f) == f.kind \in {"null", "int"}

\* words[position] = word for every position of every word, in dict order
RECURSIVE PlaceWords(_, _)
PlaceWords(index, words) ==
  IF index = <<>> THEN words
  ELSE LET e == Head(index)
       IN  PlaceWords(Tail(index),
             [p \in DOMAIN words |->
                IF \E j \in 1 .. Len(e.positions) : e.positions[j] + 1 = p
                THEN e.word ELSE words[p]])

AllPositions(index) ==
  UNION { {index[k].positions[j] : j \in 1 .. Len(index[k].positions)} :
            k \in 1 .. Len(index) }

MaxPosition(index) ==
  CHOOSE m \in AllPositions(index) : \A q \in AllPositions(index) : q <= m

\* mutant: the words are joined without a blank
JoinWordsNoBlank(words) == words

\* ' '.join(words): the words with a blank token between neighbours
RECURSIVE JoinWords(_)
JoinWords(words) ==
  IF words = <<>> THEN <<>>
  ELSE IF Len(words) = 1 THEN words
  ELSE <<Head(words), " ">> \o JoinWords(Tail(words))

\* reconstruct_abstract_from_inverted_index; max() of an empty position list
\* raises, and the handler returns ''
reconstruct_abstract_from_inverted_index(index) ==
  IF index = <<>> THEN <<>>
  ELSE IF \E k \in 1 .. Len(index) : index[k].positions = <<>> THEN <<>>
  ELSE LET words == PlaceWords(index, [p \in 1 .. (MaxPosition(index) + 1) |-> ""])
           IsWord(w) == w # ""
       IN  Strip(JoinWords(SelectSeq(words, IsWord)))

NoVenue == [name |-> Null, type |-> Null, issn |-> Null, is_oa |-> Null]

\* location.get('source', {}) of a truthy location; {} stands for the source
\* that is not looked up
SourceOf(location) ==
  IF Falsy(location) THEN EmptyDict ELSE DictGet(Key(location, "source"), EmptyDict)

\* the four fields a truthy source of the primary location sets
PrimaryVenue(source) ==
  IF Falsy(source) THEN NoVenue
  ELSE [name |-> Get(source, "display_name"), type |-> Get(source, "type"),
        issn |-> Get(source, "issn_l"), is_oa |-> Get(source, "is_oa")]

\* `if not venue_info['name']`: a truthy source of the best open-access
\* location sets name and type
FallbackVenue(venue, source) ==
  IF ~Falsy(venue.name) \/ Falsy(source) THEN venue
  ELSE [venue EXCEPT !.name = Get(source, "display_name"),
                     !.type = Get(source, "type")]

get_publication_venue(w) ==
  FallbackVenue(PrimaryVenue(SourceOf(DictGet(w.primary_location, EmptyDict))),
                SourceOf(DictGet(w.best_oa_location, EmptyDict)))

\* .get on a truthy location that is no dict
VenueRaises(w) ==
  \/ ~Falsy(DictGet(w.primary_location, EmptyDict))
       /\ DictGet(w.primary_location, EmptyDict).kind # "dict"
  \/ ~Falsy(DictGet(w.best_oa_location, EmptyDict))
       /\ DictGet(w.best_oa_location, EmptyDict).kind # "dict"

\* the statement of the try block of _process_work_data that raises first, as
\* the name of its exception; "" when none raises
WorkTryFault(w) ==
  IF ExtractIdRaises(DictGet(w.id, F("str", <<>>))) THEN "TypeError"
  ELSE IF CleanDoiRaises(DictGet(w.doi, F("str", <<>>))) THEN "AttributeError"
  ELSE IF NotIterable(DictGet(w.authorships, F("list", <<>>))) THEN "TypeError"
  ELSE IF VenueRaises(w) THEN "AttributeError"
  ELSE IF NotIterable(DictGet(w.concepts, F("list", <<>>))) THEN "TypeError"
  ELSE IF DictGet(w.open_access, F("dict", <<>>)).kind # "dict" THEN "AttributeError"
  ELSE IF NotIterable(DictGet(w.referenced_works, F("list", <<>>))) THEN "TypeError"
  ELSE IF NotIterable(DictGet(w.related_works, F("list", <<>>))) THEN "TypeError"
  ELSE ""

\* the except handler of _process_work_data calls clean_doi once more
WorkHandlerFault(w) ==
  IF CleanDoiRaises(DictGet(w.doi, F("str", <<>>))) THEN "AttributeError" ELSE ""

\* _process_work_data: the processed dict (the keys the claims are about), the
\* minimal dict with an error key, or the exception it lets out
process_work_data(w) ==
  IF WorkTryFault(w) = ""
  THEN [fault |-> "",
        rec |-> [openalex_id |-> extract_openalex_id(DictGet(w.id, F("str", <<>>))),
                 title |-> DictGet(w.title, F("str", <<"No title available">>)),
                 doi |-> CleanDoi(DictGet(w.doi, F("str", <<>>))),
                 cited_by_count |-> DictGet(w.cited_by_count, F("int", 0)),
                 abstract |->
                   LET ai == DictGet(w.abstract_inverted_index, F("dict", <<>>))
                   IN  IF Falsy(ai) THEN <<"No abstract available">>
                       ELSE reconstruct_abstract_from_inverted_index(ai.val),
                 authors |-> DictGet(w.authorships, F("list", <<>>)).val,
                 venue |-> get_publication_venue(w)]]
  ELSE IF WorkHandlerFault(w) = ""
  THEN [fault |-> "",
        rec |-> [title |-> DictGet(w.title, F("str", <<"Error processing work">>)),
                 doi |-> CleanDoi(DictGet(w.doi, F("str", <<>>))),
                 error |-> WorkTryFault(w)]]
  ELSE [fault |-> WorkHandlerFault(w), rec |-> <<>>]

\* mutant: the quotient is cut off after two decimals
Round2Truncates(cited_by_count, works_count) ==
  (100 * cited_by_count) \div works_count

\* round(cited_by_count / works_count, 2) in hundredths, for works_count > 0:
\* the nearest hundredth, a tie going to the even one (the quotients that
\* are a tie for the counts drawn are exact in binary)
Round2(cited_by_count, works_count) ==
  LET q == (100 * cited_by_count) \div works_count
      r == (100 * cited_by_count) % works_count
  IN  IF 2 * r < works_count THEN q
      ELSE IF 2 * r > works_count THEN q + 1
      ELSE IF q % 2 = 0 THEN q ELSE q + 1

\* metrics['citations_per_work'], in hundredths
CitationsPerWork(works_count, cited_by_count) ==
  IF works_count.val > 0 THEN Round2(cited_by_count.val, works_count.val) ELSE 0

\* `works_count > 0` or the division on a count that is no number
CountsRaise(d) ==
  \/ DictGet(d.works_count, IntV(0)).kind # "int"
  \/ DictGet(d.cited_by_count, IntV(0)).kind # "int"

\* _calculate_author_metrics (the key the claims are about)
calculate_author_metrics(a) ==
  [citations_per_work |->
     CitationsPerWork(DictGet(a.works_count, IntV(0)), DictGet(a.cited_by_count, IntV(0)))]

\* processed['affiliation']: None without a last known institution
Affiliation(institution) ==
  IF Falsy(institution) THEN Null
  ELSE Dict([display_name |-> Get(institution, "display_name"),
             country_code |-> Get(institution, "country_code"),
             type |-> Get(institution, "type"),
             openalex_id |->
               Str(extract_openalex_id(DictGet(Key(institution, "id"), Str(<<>>))))])

AuthorTryFault(a) ==
  IF ExtractIdRaises(DictGet(a.id, F("str", <<>>))) THEN "TypeError"
  ELSE IF ~Falsy(DictGet(a.last_known_institution, Null))
            /\ DictGet(a.last_known_institution, Null).kind # "dict"
  THEN "AttributeError"
  ELSE IF NotIterable(DictGet(a.x_concepts, F("list", <<>>))) THEN "TypeError"
  ELSE IF NotIterable(DictGet(a.counts_by_year, F("list", <<>>))) THEN "TypeError"
  ELSE IF CountsRaise(a) THEN "TypeError"
  ELSE ""

\* the except handler of _process_author_data calls extract_openalex_id once more
AuthorHandlerFault(a) ==
  IF ExtractIdRaises(DictGet(a.id, F("str", <<>>))) THEN "TypeError" ELSE ""

\* _process_author_data
process_author_data(a) ==
  IF AuthorTryFault(a) = ""
  THEN [fault |-> "",
        rec |-> [openalex_id |-> extract_openalex_id(DictGet(a.id, F("str", <<>>))),
                 display_name |-> DictGet(a.display_name, F("str", <<"Unknown Author">>)),
                 orcid |-> DictGet(a.orcid, Null),
                 works_count |-> DictGet(a.works_count, IntV(0)),
                 cited_by_count |-> DictGet(a.cited_by_count, IntV(0)),
                 affiliation |-> Affiliation(DictGet(a.last_known_institution, Null)),
                 metrics |-> calculate_author_metrics(a)]]
  ELSE IF AuthorHandlerFault(a) = ""
  THEN [fault |-> "",
        rec |-> [display_name |->
                   DictGet(a.display_name, F("str", <<"Error processing author">>)),
                 openalex_id |-> extract_openalex_id(DictGet(a.id, F("str", <<>>))),
                 error |-> AuthorTryFault(a)]]
  ELSE [fault |-> AuthorHandlerFault(a), rec |-> <<>>]

\* one entry of processed['related_concepts']
ProcessedRelated(related) ==
  [openalex_id |-> extract_openalex_id(DictGet(Key(related, "id"), Str(<<>>))),
   display_name |-> Get(related, "display_name"),
   level |-> Get(related, "level"),
   score |-> DictGet(Key(related, "score"), IntV(0))]

\* `for related in related_concepts[:10]`
related_concepts(c) ==
  LET kept == PySlice(DictGet(c.related_concepts, F("list", <<>>)).val, RelatedLimit)
  IN  [k \in 1 .. Len(kept) |-> ProcessedRelated(kept[k])]

\* _calculate_concept_metrics (the keys the claims are about)
calculate_concept_metrics(c) ==
  [citations_per_work |->
     CitationsPerWork(DictGet(c.works_count, IntV(0)), DictGet(c.cited_by_count, IntV(0))),
   breadth_score |-> Len(DictGet(c.related_concepts, F("list", <<>>)).val)]

ConceptTryFault(c) ==
  IF ExtractIdRaises(DictGet(c.id, F("str", <<>>))) THEN "TypeError"
  ELSE IF NotIterable(DictGet(c.ancestors, F("list", <<>>))) THEN "TypeError"
  ELSE IF NotIterable(DictGet(c.related_concepts, F("list", <<>>))) THEN "TypeError"
  ELSE IF NotIterable(DictGet(c.counts_by_year, F("list", <<>>))) THEN "TypeError"
  ELSE IF CountsRaise(c) THEN "TypeError"
  ELSE ""

\* the except handler of _process_concept_data calls extract_openalex_id once more
ConceptHandlerFault(c) ==
  IF ExtractIdRaises(DictGet(c.id, F("str", <<>>))) THEN "TypeError" ELSE ""

\* _process_concept_data
process_concept_data(c) ==
  IF ConceptTryFault(c) = ""
  THEN [fault |-> "",
        rec |-> [openalex_id |-> extract_openalex_id(DictGet(c.id, F("str", <<>>))),
                 display_name |-> DictGet(c.display_name, F("str", <<"Unknown Concept">>)),
                 works_count |-> DictGet(c.works_count, IntV(0)),
                 cited_by_count |-> DictGet(c.cited_by_count, IntV(0)),
                 related_concepts |-> related_concepts(c),
                 metrics |-> calculate_concept_metrics(c)]]
  ELSE IF ConceptHandlerFault(c) = ""
  THEN [fault |-> "",
        rec |-> [display_name |->
                   DictGet(c.display_name, F("str", <<"Error processing concept">>)),
                 openalex_id |-> extract_openalex_id(DictGet(c.id, F("str", <<>>))),
                 error |-> ConceptTryFault(c)]]
  ELSE [fault |-> ConceptHandlerFault(c), rec |-> <<>>]

Shapes == {"good"} \cup OddShapes \cup AltShapes

\* the normalizers on the raw record of every shape
ProcessedWork == [sh \in Shapes |-> process_work_data(RawWork(sh))]

ProcessedAuthor == [sh \in Shapes |-> process_author_data(RawAuthor(sh))]

ProcessedConcept == [sh \in Shapes |-> process_concept_data(RawConcept(sh))]

\* the normalizer an operation applies to the raw records of its response
Normalize(op, raw) ==
  IF op \in {"search_openalex_papers", "get_publication_by_doi"}
  THEN ProcessedWork[raw.shape]
  ELSE IF op \in {"search_openalex_authors", "OpenAlexAuthorRetriever.get_by_openalex_id"}
  THEN ProcessedAuthor[raw.shape]
  ELSE ProcessedConcept[raw.shape]

\* the entry of a result list: the raw record it was made of (the processed
\* dict is that of its shape), and whether it is the minimal record with an
\* error key
Entry(raw, n) == [id |-> raw.id, shape |-> raw.shape, error |-> "error" \in DOMAIN n.rec]

\* the normalizer lets an exception out
ProcessRaises(op, raw) == Normalize(op, raw).fault # ""

\* the exception a normalizer lets out
ProcessFault(op, raw) == Normalize(op, raw).fault

ProcessRecord(op, raw) == Entry(raw, Normalize(op, raw))

\* mutant: the page is not truncated
TruncateNothing(works, max_results) == works

\* works[:max_results]
Truncate(works, max_results) == PySlice(works, max_results)

\* the level filter of the loop of search_concepts
LevelFilter(concepts, level) ==
  LET Passes(concept) == ~(level # None /\ concept.level # level[1])
  IN  SelectSeq(concepts, Passes)

\* the least element of a set of indices, 0 for the empty set
First(indices) ==
  IF indices = {} THEN 0 ELSE CHOOSE k \in indices : \A j \in indices : k <= j

\* index of the first record whose normalization raises, 0 when none does
FirstRaise(op, raws) == First({k \in 1 .. Len(raws) : ProcessRaises(op, raws[k])})

\* mutant: every processed record is inserted at the front of the list
CollectReversed(op, raws) ==
  [k \in 1 .. Len(raws) |-> ProcessRecord(op, raws[Len(raws) + 1 - k])]

\* processed.append(self._process_*_data(raw)) for every raw record
Collect(op, raws) == [k \in 1 .. Len(raws) |-> ProcessRecord(op, raws[k])]

\* the loop over the records kept, the normalization of record fr being the
\* first that raises (none when fr = 0): the records the normalizer was
\* invoked on, and the list returned or the exception raised
LoopResult(op, kept, fr) ==
  IF fr = 0
  THEN [out    |-> Return(Collect(op, kept)),
        normed |-> [k \in 1 .. Len(kept) |-> kept[k].id]]
  ELSE [out    |-> Raise(ProcessFault(op, kept[fr]), 0),
        normed |-> [k \in 1 .. fr |-> kept[k].id]]

LoopOver(op, kept) == LoopResult(op, kept, FirstRaise(op, kept))

\* the loop `for work in works[:max_results]` of search_publications,
\* search_authors and search_concepts (with its level filter);
\* response.get on the None of _make_request raises AttributeError
SearchLoop(op, h, max_results, level) ==
  IF h.kind = "raise" THEN [out |-> h, normed |-> <<>>]
  ELSE IF h.none THEN [out |-> Raise("AttributeError", 0), normed |-> <<>>]
  ELSE IF op \in ConceptSearchOps
  THEN LoopOver(op, LevelFilter(Truncate(h.items, max_results), level))
  ELSE LoopOver(op, Truncate(h.items, max_results))

\* mutant: the branch for a start year alone is tested first
YearFiltersStartFirst(start_year, end_year) ==
  IF Truthy(start_year)
  THEN <<ScalarFilter("publication_year", ">=" \o ToString(start_year[1]))>>
  ELSE IF Truthy(end_year)
  THEN <<ScalarFilter("publication_year", "<=" \o ToString(end_year[1]))>>
  ELSE <<>>

\* filters of search_publications
YearFilters(start_year, end_year) ==
  IF Truthy(start_year) /\ Truthy(end_year)
  THEN <<ScalarFilter("publication_year",
                      ToString(start_year[1]) \o "-" \o ToString(end_year[1]))>>
  ELSE IF Truthy(start_year)
  THEN <<ScalarFilter("publication_year", ">=" \o ToString(start_year[1]))>>
  ELSE IF Truthy(end_year)
  THEN <<ScalarFilter("publication_year", "<=" \o ToString(end_year[1]))>>
  ELSE <<>>

\* per_page=min(max_results, 50)
FacadePerPage(max_results) == Some(Min(max_results, ApiLimit))

search_publications_req(c) ==
  search_works(YearFilters(c.start_year, c.end_year), FacadePerPage(c.max_results))

search_authors_req(c) == search_authors(<<>>, FacadePerPage(c.max_results))

search_concepts_req(c) == search_concepts(<<>>, FacadePerPage(c.max_results))

get_by_doi_req(c) == DoiEndpoint(clean_doi(c.doi))

\* return self._process_*_data(raw), the normalizer having given n
ProcessOne(raw, n) ==
  IF n.fault # ""
  THEN [out |-> Raise(n.fault, 0), normed |-> <<raw.id>>]
  ELSE [out |-> Return(<<Entry(raw, n)>>), normed |-> <<raw.id>>]

\* get_by_doi after the client returned: normalize the work, or None
get_by_doi(h) ==
  IF h.kind = "raise" THEN [out |-> h, normed |-> <<>>]
  ELSE IF h.none \/ h.items = <<>> THEN [out |-> ReturnNone, normed |-> <<>>]
  ELSE ProcessOne(h.items[1], Normalize("get_publication_by_doi", h.items[1]))

\* get_by_openalex_id of the author and of the concept facade
get_by_openalex_id_req(c) ==
  IF c.op = "OpenAlexAuthorRetriever.get_by_openalex_id"
  THEN search_authors(<<>>, Some(1))
  ELSE search_concepts(<<>>, Some(1))

\* get_by_openalex_id after the client returned: normalize results[0], or None
get_by_openalex_id(op, h) ==
  IF h.kind = "raise" THEN [out |-> h, normed |-> <<>>]
  ELSE IF h.none THEN [out |-> Raise("AttributeError", 0), normed |-> <<>>]
  ELSE IF h.items = <<>> THEN [out |-> ReturnNone, normed |-> <<>>]
  ELSE ProcessOne(h.items[1], Normalize(op, h.items[1]))

\* search_concepts of the concept facade, called with a level
facade_search_concepts_req(c) == search_concepts(<<>>, FacadePerPage(c.max_results))

(***************************************************************************)
(* Tool operations of app.py.                                              *)
(***************************************************************************)
\* mutant: the tool operation lets the exception of the facade through
ToolSearchResultReraise(f) ==
  IF f.kind = "raise" THEN f
  ELSE IF f.none THEN Return(<<>>) ELSE Return(f.items)

\* mutant: the handler of the tool operation returns None
ToolSearchResultNoneOnError(f) ==
  IF f.kind = "raise" THEN ReturnNone
  ELSE IF f.none THEN Return(<<>>) ELSE Return(f.items)

\* try: return results or []   except Exception: return []
ToolSearchResult(f) ==
  IF f.kind = "raise" THEN Return(<<>>)
  ELSE IF f.none THEN Return(<<>>) ELSE Return(f.items)

\* try: return result if result else None   except Exception: return None
ToolDoiResult(f) ==
  IF f.kind = "raise" THEN ReturnNone
  ELSE IF f.none \/ f.items = <<>> THEN ReturnNone ELSE f

(***************************************************************************)
(* Web form of app.py: the author search.                                  *)
(***************************************************************************)
\* the text a wrapper of the web form returns: nothing yet, 'No authors
\* found.', a listing with one block per author, or 'Error searching
\* authors: ...'; format_author_results may raise instead
NoText == [kind |-> "pending", exc |-> "", blocks |-> <<>>]

NoAuthorsFound == [kind |-> "empty", exc |-> "", blocks |-> <<>>]

Listing(blocks) == [kind |-> "listing", exc |-> "", blocks |-> blocks]

FormatRaise(exc) == [kind |-> "raise", exc |-> exc, blocks |-> <<>>]

ErrorSearching(exc) == [kind |-> "error", exc |-> exc, blocks |-> <<>>]

\* the processed dict an entry of a result list of authors stands for
AuthorRecord(entry) == ProcessedAuthor[entry.shape].rec

\* author.get(key, default) on a processed dict
RecGet(rec, key, default) == IF key \in DOMAIN rec THEN rec[key] ELSE default

\* author.get('affiliation', {}).get(...) on a value that is no dict
AffiliationRaises(rec) == RecGet(rec, "affiliation", EmptyDict).kind # "dict"

\* the block of one author
AuthorBlock(rec) ==
  [name |-> RecGet(rec, "display_name", Str(<<"No name">>)),
   orcid |-> RecGet(rec, "orcid", Str(<<"No ORCID">>)),
   affiliation |->
     DictGet(Key(RecGet(rec, "affiliation", EmptyDict), "display_name"),
             Str(<<"No affiliation">>)),
   works_count |-> RecGet(rec, "works_count", IntV(0))]

format_author_results(authors) ==
  IF authors = <<>> THEN NoAuthorsFound
  ELSE IF \E k \in 1 .. Len(authors) : AffiliationRaises(AuthorRecord(authors[k]))
  THEN FormatRaise("AttributeError")
  ELSE Listing([k \in 1 .. Len(authors) |-> AuthorBlock(AuthorRecord(authors[k]))])

\* `except Exception as e: return f"Error searching authors: {str(e)}"`
UiCatch(text) == IF text.kind = "raise" THEN ErrorSearching(text.exc) ELSE text

\* the try block of search_authors_ui on the result t of search_openalex_authors
FormatOrError(t) == UiCatch(format_author_results(t.items))

(***************************************************************************)
(* State machine.                                                          *)
(***************************************************************************)
\* the client method on the outcome h of _make_request
ClientResult(op, h) ==
  IF op = "get_publication_by_doi" THEN get_work_by_doi(h) ELSE h

\* the facade method on the result cl of the client method
FacadeResult(c, cl) ==
  IF c.op = "get_publication_by_doi" THEN get_by_doi(cl)
  ELSE IF c.op \in GetByIdOps THEN get_by_openalex_id(c.op, cl)
  ELSE SearchLoop(c.op, cl, c.max_results, c.level)

\* the tool operation on the result f of the facade method
ToolResult(op, f) ==
  IF op = "get_publication_by_doi" THEN ToolDoiResult(f)
  ELSE IF op \in SearchTools THEN ToolSearchResult(f)
  ELSE Pending

\* the wrapper of the web form on the result t of the tool operation
UiResult(c, t) == IF c.ui THEN FormatOrError(t) ELSE NoText

WithUi(c, cl, f, t) ==
  [client |-> cl, facade |-> f.out, tool |-> t, ui |-> UiResult(c, t),
   normed |-> f.normed]

Layers(c, cl, f) == WithUi(c, cl, f, ToolResult(c.op, f.out))

OutsAbove(c, cl) == Layers(c, cl, FacadeResult(c, cl))

\* what the layers above _make_request make of its outcome h
Outs(c, h) ==
  IF c.op \in ClientOps
  THEN [client |-> h, facade |-> Pending, tool |-> Pending, ui |-> NoText,
        normed |-> <<>>]
  ELSE OutsAbove(c, ClientResult(c.op, h))

\* the outcome h of _make_request and the results o of its callers are kept
Record(i, h, o) ==
  /\ pc' = [pc EXCEPT ![i] = "done"]
  /\ httpOut' = [httpOut EXCEPT ![i] = h]
  /\ clientOut' = [clientOut EXCEPT ![i] = o.client]
  /\ facadeOut' = [facadeOut EXCEPT ![i] = o.facade]
  /\ toolOut' = [toolOut EXCEPT ![i] = o.tool]
  /\ uiOut' = [uiOut EXCEPT ![i] = o.ui]
  /\ normed' = [normed EXCEPT ![i] = o.normed]

\* _make_request is over with outcome h: the callers run to completion
Finish(i, c, h) == Record(i, h, Outs(c, h))

StillPending(i) ==
  /\ httpOut' = [httpOut EXCEPT ![i] = Pending]
  /\ clientOut' = [clientOut EXCEPT ![i] = Pending]
  /\ facadeOut' = [facadeOut EXCEPT ![i] = Pending]
  /\ toolOut' = [toolOut EXCEPT ![i] = Pending]
  /\ uiOut' = [uiOut EXCEPT ![i] = NoText]
  /\ normed' = [normed EXCEPT ![i] = <<>>]

\* mutant: the attempt counter lives on the shared client, and a call that
\* begins resets it
BeginSharedCounter(i, c, r) ==
  /\ i \in active
  /\ pc[i] = "idle"
  /\ call' = [call EXCEPT ![i] = c]
  /\ req' = [req EXCEPT ![i] = r]
  /\ attempt' = [j \in Invs |-> 0]
  /\ gets' = [gets EXCEPT ![i] = 0]
  /\ sent' = [sent EXCEPT ![i] = {}]
  /\ slept' = [slept EXCEPT ![i] = <<>>]
  /\ last' = [last EXCEPT ![i] = NoOutcome]
  /\ allTransient' = [allTransient EXCEPT ![i] = TRUE]
  /\ IF retries + 1 > 0
     THEN pc' = [pc EXCEPT ![i] = "attempt"] /\ StillPending(i)
     ELSE Finish(i, c, ReturnNone)
  /\ UNCHANGED config

\* an operation is called with arguments c and reaches _make_request with
\* request r; `for attempt in range(self.retries + 1)` may be empty, and then
\* _make_request falls off its end and returns None
Begin(i, c, r) ==
  /\ i \in active
  /\ pc[i] = "idle"
  /\ call' = [call EXCEPT ![i] = c]
  /\ req' = [req EXCEPT ![i] = r]
  /\ attempt' = [attempt EXCEPT ![i] = 0]
  /\ gets' = [gets EXCEPT ![i] = 0]
  /\ sent' = [sent EXCEPT ![i] = {}]
  /\ slept' = [slept EXCEPT ![i] = <<>>]
  /\ last' = [last EXCEPT ![i] = NoOutcome]
  /\ allTransient' = [allTransient EXCEPT ![i] = TRUE]
  /\ IF retries + 1 > 0
     THEN pc' = [pc EXCEPT ![i] = "attempt"] /\ StillPending(i)
     ELSE Finish(i, c, ReturnNone)
  /\ UNCHANGED config

\* the arguments and responses drawn: all of them when caller 1 runs alone, few
\* of them for any other set of callers
Solo == active = {1}

\* the page sizes of the client matter to its per-page parameter alone: the
\* years, DOIs, levels and filters are drawn in full under the default page
\* sizes, and one of each under the other page sizes
Wide == Solo /\ max_per_page = 200 /\ default_per_page = 25

MaxResultsIn == IF Solo THEN MaxResultsValues ELSE PairMaxResults

YearsIn == {None} \cup (IF Wide THEN {Some(y) : y \in YearValues} ELSE {})

DoisIn == IF Wide THEN DoiValues \cup OddDoiValues ELSE {BareDoi}

PerPagesIn == {None} \cup (IF Solo THEN {Some(v) : v \in PerPageValues} ELSE {})

LevelsIn == {Some(1)} \cup (IF Wide THEN {None, Some(0)} ELSE {})

ClientOpsIn == IF Solo THEN ClientOps ELSE {"search_works"}

GetByIdOpsIn ==
  IF Solo THEN GetByIdOps ELSE {"OpenAlexAuthorRetriever.get_by_openalex_id"}

OpenAlexIdsIn == IF Solo THEN OpenAlexIds ELSE {"A5023888391"}

UiMaxResultsIn == IF Solo THEN UiMaxResultsValues ELSE PairMaxResults

OutcomesIn == IF Solo THEN Outcomes ELSE PairOutcomes

search_openalex_papers(i) ==
  \E m \in MaxResultsIn, sy \in YearsIn, ey \in YearsIn :
    LET c == [NoCall EXCEPT !.op = "search_openalex_papers", !.max_results = m,
                            !.start_year = sy, !.end_year = ey]
    IN  Begin(i, c, search_publications_req(c))

search_openalex_authors(i) ==
  \E m \in MaxResultsIn :
    LET c == [NoCall EXCEPT !.op = "search_openalex_authors", !.max_results = m]
    IN  Begin(i, c, search_authors_req(c))

search_openalex_concepts(i) ==
  \E m \in MaxResultsIn :
    LET c == [NoCall EXCEPT !.op = "search_openalex_concepts", !.max_results = m]
    IN  Begin(i, c, search_concepts_req(c))

\* the author search of the web form
search_authors_ui(i) ==
  \E m \in UiMaxResultsIn :
    LET c == [NoCall EXCEPT !.op = "search_openalex_authors", !.ui = TRUE,
                            !.max_results = m]
    IN  Begin(i, c, search_authors_req(c))

get_publication_by_doi(i) ==
  \E d \in DoisIn :
    LET c == [NoCall EXCEPT !.op = "get_publication_by_doi", !.doi = d]
    IN  Begin(i, c, get_by_doi_req(c))

\* get_by_openalex_id of the author facade or of the concept facade
facade_get_by_openalex_id(i) ==
  \E op \in GetByIdOpsIn, id \in OpenAlexIdsIn :
    LET c == [NoCall EXCEPT !.op = op, !.openalex_id = id]
    IN  Begin(i, c, get_by_openalex_id_req(c))

\* search_concepts of the concept facade, with or without a level
facade_search_concepts(i) ==
  \E m \in MaxResultsIn, lv \in LevelsIn :
    LET c == [NoCall EXCEPT !.op = "OpenAlexConceptRetriever.search_concepts",
                            !.max_results = m, !.level = lv]
    IN  Begin(i, c, facade_search_concepts_req(c))

FiltersIn == {<<>>} \cup (IF Wide THEN FilterValues ELSE {})

\* a search method of the API client called directly, with filters (and the
\* default page size) or without
ClientSearch(i) ==
  \E op \in ClientOpsIn, pp \in PerPagesIn, fs \in FiltersIn :
    /\ fs # <<>> => pp = None
    /\ LET c == [NoCall EXCEPT !.op = op, !.per_page = pp, !.filters = fs]
           r == CASE op = "search_works" -> search_works(fs, pp)
                  [] op = "search_authors" -> search_authors(fs, pp)
                  [] OTHER -> search_concepts(fs, pp)
       IN  Begin(i, c, r)

\* a transient failure: timeout, connection error, 5xx
Transient(o) ==
  o.kind \in {"Timeout", "ConnectionError"} \/ (o.kind = "HTTPError" /\ o.status >= 500)

\* mutant: the body of a successful response is returned only after the loop
SendGetReturnsAfterLoop(i) ==
  /\ pc[i] = "attempt"
  /\ \E o \in OutcomesIn :
       /\ gets' = [gets EXCEPT ![i] = @ + 1]
       /\ sent' = [sent EXCEPT ![i] = @ \cup {req[i]}]
       /\ last' = [last EXCEPT ![i] = o]
       /\ allTransient' = [allTransient EXCEPT ![i] = @ /\ Transient(o)]
       /\ IF LastAttempt(attempt[i], retries)
          THEN IF o.kind = "ok"
               THEN Finish(i, call[i], Return(HttpBody(req[i], o)))
               ELSE Finish(i, call[i], HttpFailure(o))
          ELSE /\ pc' = [pc EXCEPT ![i] = "sleep"]
               /\ UNCHANGED <<httpOut, clientOut, facadeOut, toolOut, uiOut, normed>>
  /\ UNCHANGED <<config, call, req, attempt, slept>>

\* one iteration of the loop of _make_request up to its return, raise or sleep
SendGet(i) ==
  /\ pc[i] = "attempt"
  /\ \E o \in OutcomesIn :
       /\ gets' = [gets EXCEPT ![i] = @ + 1]
       /\ sent' = [sent EXCEPT ![i] = @ \cup {req[i]}]
       /\ last' = [last EXCEPT ![i] = o]
       /\ allTransient' = [allTransient EXCEPT ![i] = @ /\ Transient(o)]
       /\ IF o.kind = "ok"
          THEN Finish(i, call[i], Return(HttpBody(req[i], o)))
          ELSE IF LastAttempt(attempt[i], retries)
          THEN Finish(i, call[i], HttpFailure(o))
          ELSE /\ pc' = [pc EXCEPT ![i] = "sleep"]
               /\ UNCHANGED <<httpOut, clientOut, facadeOut, toolOut, uiOut, normed>>
  /\ UNCHANGED <<config, call, req, attempt, slept>>

\* mutant: after the sleep _make_request calls itself, and the call starts over
BackoffStartsOver(i) ==
  /\ pc[i] = "sleep"
  /\ pc' = [pc EXCEPT ![i] = "attempt"]
  /\ attempt' = [attempt EXCEPT ![i] = 0]
  /\ gets' = [gets EXCEPT ![i] = 0]
  /\ sent' = [sent EXCEPT ![i] = {}]
  /\ slept' = [slept EXCEPT ![i] = <<>>]
  /\ last' = [last EXCEPT ![i] = NoOutcome]
  /\ allTransient' = [allTransient EXCEPT ![i] = TRUE]
  /\ UNCHANGED <<config, call, req, httpOut, clientOut, facadeOut, toolOut, uiOut, normed>>

\* time.sleep(wait_time) returns and the loop goes on, or ends
Backoff(i) ==
  /\ pc[i] = "sleep"
  /\ slept' = [slept EXCEPT ![i] = Append(@, WaitTime(attempt[i]))]
  /\ IF LoopContinues(attempt[i], retries)
     THEN /\ attempt' = [attempt EXCEPT ![i] = @ + 1]
          /\ pc' = [pc EXCEPT ![i] = "attempt"]
          /\ UNCHANGED <<httpOut, clientOut, facadeOut, toolOut, uiOut, normed>>
     ELSE /\ UNCHANGED attempt
          /\ Finish(i, call[i], ReturnNone)
  /\ UNCHANGED <<config, call, req, gets, sent, last, allTransient>>

\* the result has gone back to the caller; nothing of the call is kept
Deliver(i) ==
  /\ pc[i] = "done"
  /\ pc' = [pc EXCEPT ![i] = "idle"]
  /\ call' = [call EXCEPT ![i] = NoCall]
  /\ req' = [req EXCEPT ![i] = NoReq]
  /\ attempt' = [attempt EXCEPT ![i] = 0]
  /\ gets' = [gets EXCEPT ![i] = 0]
  /\ sent' = [sent EXCEPT ![i] = {}]
  /\ slept' = [slept EXCEPT ![i] = <<>>]
  /\ last' = [last EXCEPT ![i] = NoOutcome]
  /\ allTransient' = [allTransient EXCEPT ![i] = TRUE]
  /\ StillPending(i)
  /\ UNCHANGED config

\* no invocation has begun
Idle ==
  /\ pc = [i \in Invs |-> "idle"]
  /\ call = [i \in Invs |-> NoCall]
  /\ req = [i \in Invs |-> NoReq]
  /\ attempt = [i \in Invs |-> 0]
  /\ gets = [i \in Invs |-> 0]
  /\ sent = [i \in Invs |-> {}]
  /\ slept = [i \in Invs |-> <<>>]
  /\ last = [i \in Invs |-> NoOutcome]
  /\ allTransient = [i \in Invs |-> TRUE]
  /\ httpOut = [i \in Invs |-> Pending]
  /\ clientOut = [i \in Invs |-> Pending]
  /\ facadeOut = [i \in Invs |-> Pending]
  /\ toolOut = [i \in Invs |-> Pending]
  /\ uiOut = [i \in Invs |-> NoText]
  /\ normed = [i \in Invs |-> <<>>]

\* one caller, any configuration
Init ==
  /\ retries \in RetryValues
  /\ max_per_page \in MaxPerPageValues
  /\ default_per_page \in DefaultPerPageValues
  /\ active = {1}
  /\ Idle

\* two callers share one API client of the default page sizes
InitPair ==
  /\ retries \in RetryValues
  /\ max_per_page = 200
  /\ default_per_page = 25
  /\ active = Invs
  /\ Idle

\* caller 2 alone, with the default page sizes
InitFair ==
  /\ retries \in RetryValues
  /\ max_per_page = 200
  /\ default_per_page = 25
  /\ active = {2}
  /\ Idle

Next ==
  \E i \in Invs :
    \/ search_openalex_papers(i)
    \/ get_publication_by_doi(i)
    \/ search_openalex_authors(i)
    \/ search_openalex_concepts(i)
    \/ search_authors_ui(i)
    \/ facade_get_by_openalex_id(i)
    \/ facade_search_concepts(i)
    \/ ClientSearch(i)
    \/ SendGet(i)
    \/ Backoff(i)
    \/ Deliver(i)

Spec == Init /\ [][Next]_vars

SpecPair == InitPair /\ [][Next]_vars

\* every GET completes and every sleep returns
Fairness == \A i \in Invs : WF_vars(SendGet(i)) /\ WF_vars(Backoff(i))

SpecFair == InitFair /\ [][Next]_vars /\ Fairness

(***************************************************************************)
(* Properties.                                                             *)
(***************************************************************************)
Done(i) == pc[i] = "done"

BothYears(c) == Truthy(c.start_year) /\ Truthy(c.end_year)

\* C1: a tool operation never lets an exception escape: whatever the facade
\* raises, a search tool returns an empty list and get_publication_by_doi
\* returns None.
C1_NoExceptionEscapes ==
  \A i \in Invs :
    (Done(i) /\ call[i].op \in ToolOps) =>
      /\ toolOut[i].kind = "return"
      /\ facadeOut[i].kind = "raise" =>
           IF call[i].op \in SearchTools
           THEN toolOut[i] = Return(<<>>)
           ELSE toolOut[i] = ReturnNone

C1_Witness ==
  \E i \in Invs :
    /\ Done(i)
    /\ call[i].op \in SearchTools
    /\ facadeOut[i].kind = "raise"
    /\ toolOut[i] = Return(<<>>)

\* C2: a _make_request call whose GET attempts all fail transiently makes
\* exactly retries+1 attempts and then raises the failure of the last one;
\* a call never makes more than retries+1 attempts.
C2_ExhaustedRetriesRaiseLast ==
  \A i \in Invs :
    /\ gets[i] > 0 => gets[i] <= retries + 1
    /\ (Done(i) /\ gets[i] > 0 /\ allTransient[i]) =>
         /\ gets[i] = retries + 1
         /\ httpOut[i] = HttpFailure(last[i])

C2_Witness ==
  \E i \in Invs :
    /\ Done(i)
    /\ retries >= 2
    /\ allTransient[i]
    /\ gets[i] = retries + 1
    /\ httpOut[i].kind = "raise"

\* C3: on a DOI lookup a final 404 of the single-item request becomes an
\* absent result of get_by_doi, and every other failure of the HTTP layer
\* propagates unchanged out of the facade.
C3_NotFoundIsAbsent ==
  \A i \in Invs :
    (Done(i) /\ call[i].op = "get_publication_by_doi" /\ httpOut[i].kind = "raise") =>
      IF httpOut[i].exc = "HTTPError" /\ httpOut[i].status = 404
      THEN facadeOut[i] = ReturnNone
      ELSE facadeOut[i] = httpOut[i]

C3_Witness ==
  \E i \in Invs :
    /\ Done(i)
    /\ call[i].op = "get_publication_by_doi"
    /\ httpOut[i] = Raise("HTTPError", 404)
    /\ facadeOut[i] = ReturnNone

\* C4: an HTTP 4xx response is raised to the caller of the HTTP layer at once:
\* the attempt that got it is the last one, no backoff and no retry follow.
C4_ClientErrorNotRetried ==
  \A i \in Invs :
    (last[i].kind = "HTTPError" /\ last[i].status >= 400 /\ last[i].status < 500) =>
      /\ Done(i)
      /\ httpOut[i] = HttpFailure(last[i])

\* C5: the k-th wait of a _make_request call lasts 2^(k-1) seconds and follows
\* the k-th failed attempt; no wait precedes the first attempt and none
\* follows the final failed attempt.
C5_BackoffSchedule ==
  \A i \in Invs :
    /\ \A k \in 1 .. Len(slept[i]) : slept[i][k] = 2 ^ (k - 1)
    /\ gets[i] = 0 => slept[i] = <<>>
    /\ pc[i] = "attempt" => Len(slept[i]) = gets[i]
    /\ pc[i] = "sleep" => Len(slept[i]) = gets[i] - 1
    /\ (Done(i) /\ gets[i] > 0) => Len(slept[i]) = gets[i] - 1

C5_Witness ==
  \E i \in Invs :
    /\ Done(i)
    /\ httpOut[i].kind = "raise"
    /\ gets[i] = 3
    /\ slept[i] = <<1, 2>>

\* C6: a publication search with both year bounds and start_year > end_year
\* fails instead of returning a result list.
C6_InvertedYearsFail ==
  \A i \in Invs :
    ( /\ Done(i)
      /\ call[i].op = "search_openalex_papers"
      /\ call[i].max_results \in 1 .. ToolMaxResults
      /\ BothYears(call[i])
      /\ call[i].start_year[1] > call[i].end_year[1] ) =>
      facadeOut[i].kind = "raise"

\* C7: for max_results >= 1 a search invokes the normalizer only on the first
\* max_results raw results and returns at most max_results records; for
\* publications and authors exactly min(max_results, upstream results).
C7_AtMostMaxResults ==
  \A i \in Invs :
    ( /\ Done(i)
      /\ call[i].op \in SearchTools
      /\ call[i].max_results >= 1
      /\ httpOut[i].kind = "return" /\ ~httpOut[i].none ) =>
      LET raws == httpOut[i].items
          k    == Min(call[i].max_results, Len(raws))
      IN  /\ Len(normed[i]) <= k
          /\ \A j \in 1 .. Len(normed[i]) : normed[i][j] = raws[j].id
          /\ facadeOut[i].kind = "return" =>
               /\ Len(facadeOut[i].items) <= call[i].max_results
               /\ Len(normed[i]) = k
               /\ call[i].op \in {"search_openalex_papers", "search_openalex_authors"}
                    => Len(facadeOut[i].items) = k

C7_Witness ==
  \E i \in Invs :
    /\ Done(i)
    /\ call[i].op = "search_openalex_papers"
    /\ call[i].max_results = 2
    /\ httpOut[i].kind = "return"
    /\ Len(httpOut[i].items) = 100
    /\ facadeOut[i].kind = "return"
    /\ Len(facadeOut[i].items) = 2
    /\ normed[i] = <<1, 2>>

\* C8: whatever max_results a search tool operation is given, it returns no
\* more than 20 records.
C8_ToolLimitClamped ==
  \A i \in Invs :
    (Done(i) /\ call[i].op \in SearchTools) =>
      Len(toolOut[i].items) <= ToolMaxResults

\* C9: with max_per_page = 50 a search with max_results = 100 requests 50
\* items upstream and returns at most 50 records, whatever the response holds.
C9_HundredCappedAtFifty ==
  \A i \in Invs :
    ( /\ gets[i] > 0
      /\ call[i].op \in SearchTools
      /\ max_per_page = 50
      /\ call[i].max_results = 100 ) =>
      /\ req[i].per_page = Some(50)
      /\ (Done(i) /\ facadeOut[i].kind = "return") => Len(facadeOut[i].items) <= 50

\* C10: the per-page parameter sent upstream by search_works, search_authors
\* and search_concepts lies in [1, max_per_page] for every requested page size.
C10_PerPageInRange ==
  \A i \in Invs :
    (gets[i] > 0 /\ req[i].search) =>
      /\ req[i].per_page # None
      /\ req[i].per_page[1] >= 1
      /\ req[i].per_page[1] <= max_per_page

\* C11: the filter parameter of the GET a publication search sends is
\* publication_year:<start>-<end> when both years are given,
\* publication_year:>=<start> when only the start year is given,
\* publication_year:<=<end> when only the end year is given, and the request
\* has no filter parameter when neither is given.
C11_YearFilterParam ==
  \A i \in Invs :
    (call[i].op = "search_openalex_papers" /\ gets[i] > 0) =>
      LET sy == call[i].start_year
          ey == call[i].end_year
      IN  /\ (sy # None /\ ey # None) =>
               req[i].filter =
                 Some("publication_year:" \o ToString(sy[1]) \o "-" \o ToString(ey[1]))
          /\ (sy # None /\ ey = None) =>
               req[i].filter = Some("publication_year:>=" \o ToString(sy[1]))
          /\ (sy = None /\ ey # None) =>
               req[i].filter = Some("publication_year:<=" \o ToString(ey[1]))
          /\ (sy = None /\ ey = None) => req[i].filter = None

C11_Witness ==
  \E i \in Invs :
    /\ call[i].op = "search_openalex_papers"
    /\ gets[i] > 0
    /\ call[i].start_year = Some(2020)
    /\ call[i].end_year = Some(2024)
    /\ req[i].filter = Some("publication_year:2020-2024")

\* C12: get_by_openalex_id of the author facade and of the concept facade sends
\* one single-item search (per-page 1) whose filter parameter restricts the
\* search to the requested identifier, openalex_id:<id>.
C12_IdFilterSent ==
  \A i \in Invs :
    (call[i].op \in GetByIdOps /\ gets[i] > 0) =>
      /\ req[i].search
      /\ req[i].per_page = Some(1)
      /\ req[i].filter = Some("openalex_id:" \o call[i].openalex_id)

\* C13: a search tool whose response holds a record that cannot be normalized
\* (a documented field null or of the wrong type) among the records it keeps
\* still returns from the facade without raising, with one record per raw
\* record: a normal one for every complete record and one with an error field
\* for the malformed one.
C13_MalformedRecordKept ==
  \A i \in Invs :
    (/\ Done(i)
     /\ call[i].op \in SearchTools
     /\ call[i].max_results \in 1 .. ToolMaxResults
     /\ httpOut[i].kind = "return" /\ ~httpOut[i].none) =>
      LET page == PySlice(httpOut[i].items, call[i].max_results)
      IN  (\E k \in 1 .. Len(page) : page[k].shape \in BadShapes) =>
            /\ facadeOut[i].kind = "return"
            /\ Len(facadeOut[i].items) = Len(page)
            /\ \A k \in 1 .. Len(page) :
                 facadeOut[i].items[k].error = (page[k].shape \in BadShapes)

\* C14: of two invocations of the same search tool with the same arguments, one
\* whose upstream call failed after its retries and one whose upstream call
\* found nothing, both return the same value, the empty list.
C14_FailureLooksEmpty ==
  \A i \in Invs, j \in Invs :
    (/\ Done(i) /\ Done(j)
     /\ call[i].op \in SearchTools
     /\ call[j] = call[i]
     /\ httpOut[i].kind = "raise"
     /\ httpOut[j] = Return(<<>>)) =>
      /\ toolOut[i] = toolOut[j]
      /\ toolOut[i] = Return(<<>>)

C14_Witness ==
  \E i \in Invs, j \in Invs :
    /\ Done(i) /\ Done(j)
    /\ call[i].op = "search_openalex_papers"
    /\ call[j] = call[i]
    /\ httpOut[i].kind = "raise" /\ gets[i] = retries + 1 /\ retries >= 1
    /\ httpOut[j] = Return(<<>>)
    /\ toolOut[i] = Return(<<>>) /\ toolOut[j] = Return(<<>>)

\* C15: a finished invocation has sent at least 1 and at most retries + 1 GETs,
\* all of them with the one URL and the one set of parameters of its request.
C15_OneLogicalCall ==
  \A i \in Invs :
    Done(i) =>
      /\ gets[i] >= 1
      /\ gets[i] <= retries + 1
      /\ sent[i] = {req[i]}

\* what belongs to invocation i
OwnState(i) ==
  <<call[i], req[i], attempt[i], gets[i], sent[i], slept[i], last[i],
    allTransient[i], httpOut[i], clientOut[i], facadeOut[i], toolOut[i], uiOut[i],
    normed[i]>>

\* the outcome of _make_request as its own responses determine it
OwnOutcome(i) ==
  IF gets[i] = 0 THEN ReturnNone
  ELSE IF last[i].kind = "ok" THEN Return(HttpBody(req[i], last[i]))
  ELSE HttpFailure(last[i])

\* C16: with two invocations interleaved on the shared client, a step of one
\* invocation leaves everything of the other unchanged (its attempt counter,
\* its request, its responses, its results), and every finished invocation
\* made at most retries + 1 attempts, one more than the sleeps it took, and has
\* the outcome its own last response determines.
C16_Independent ==
  /\ [][\A i \in Invs : pc'[i] = pc[i] => OwnState(i)' = OwnState(i)]_vars
  /\ [](\A i \in Invs :
          Done(i) =>
            /\ httpOut[i] = OwnOutcome(i)
            /\ gets[i] <= Max(retries + 1, 0)
            /\ gets[i] > 0 => gets[i] = Len(slept[i]) + 1
            /\ toolOut[i] = Outs(call[i], OwnOutcome(i)).tool)

C16_Witness ==
  /\ active = Invs
  /\ pc[1] = "sleep" /\ pc[2] = "sleep"
  /\ attempt[1] = 1 /\ attempt[2] = 0
  /\ call[1] = call[2]

\* C17: the list a search returns is in the order of the raw results: its i-th
\* record is made of the i-th raw result (for a concept search with a level,
\* of the i-th raw result of that level), and a response without results gives
\* the empty list, not an error.
C17_ResultsInRawOrder ==
  \A i \in Invs :
    (Done(i) /\ call[i].op \in SearchTools \cup {"OpenAlexConceptRetriever.search_concepts"}) =>
      LET raws == httpOut[i].items
          out  == facadeOut[i].items
          lv   == call[i].level
          Passes(k) == lv = None \/ raws[k].level = lv[1]
      IN  /\ facadeOut[i].kind = "return" =>
                \A j \in 1 .. Len(out) :
                  \E k \in 1 .. Len(raws) :
                    /\ raws[k].id = out[j].id
                    /\ Passes(k)
                    /\ Cardinality({p \in 1 .. (k - 1) : Passes(p)}) = j - 1
          /\ httpOut[i] = Return(<<>>) => facadeOut[i] = Return(<<>>)

C17_Witness ==
  \E i \in Invs :
    /\ Done(i)
    /\ call[i].op = "OpenAlexConceptRetriever.search_concepts"
    /\ call[i].level = Some(1)
    /\ Len(httpOut[i].items) = 3
    /\ facadeOut[i].kind = "return"
    /\ Len(facadeOut[i].items) = 2
    /\ facadeOut[i].items[2].id = httpOut[i].items[3].id

\* C18: every call of _make_request that has begun its loop eventually
\* completes, by returning or by raising, given that every GET completes and
\* every sleep returns.
C18_MakeRequestCompletes ==
  \A i \in Invs : (pc[i] \in {"attempt", "sleep"}) ~> Done(i)

C18_Witness ==
  \E i \in Invs :
    /\ Done(i)
    /\ retries = MaxRetries
    /\ gets[i] = retries + 1
    /\ Len(slept[i]) = retries
    /\ httpOut[i].kind = "raise"

\* C19: get_publication_by_doi with the DOI in any accepted form (bare, with
\* https://doi.org/, with http://doi.org/, with doi:) requests the endpoint
\* /works/https://doi.org/<bare DOI>.
C19_DoiFormsSameEndpoint ==
  \A i \in Invs :
    (/\ call[i].op = "get_publication_by_doi"
     /\ call[i].doi \in {BareDoi, HttpsPrefix \o BareDoi, HttpPrefix \o BareDoi,
                         DoiPrefix \o BareDoi}) =>
      /\ req[i].endpoint = <<"/works/", "http", "s", "://", "doi", ".org/">> \o BareDoi
      /\ sent[i] \subseteq {req[i]}

C19_Witness ==
  \E i \in Invs :
    /\ call[i].op = "get_publication_by_doi"
    /\ call[i].doi = DoiPrefix \o BareDoi
    /\ gets[i] > 0
    /\ req[i].endpoint = <<"/works/">> \o HttpsPrefix \o BareDoi

\* C20: a raw publication record with every optional field missing is
\* normalized without raising and without an error field to a record whose
\* title and doi are non-null defaults, whose abstract is 'No abstract
\* available', whose authors list is empty and whose cited_by_count is 0.
C20_MinimalWorkDefaults ==
  \A i \in Invs :
    (/\ Done(i)
     /\ call[i].op \in {"search_openalex_papers", "get_publication_by_doi"}
     /\ httpOut[i].kind = "return") =>
      \A k \in 1 .. Len(normed[i]) :
        LET raw == httpOut[i].items[normed[i][k]]
            r   == process_work_data(RawWork(raw.shape))
        IN  (raw.shape = "minimal" /\ facadeOut[i].kind = "return") =>
              /\ r.fault = ""
              /\ "error" \notin DOMAIN r.rec
              /\ r.rec.title = F("str", <<"No title available">>)
              /\ r.rec.doi = <<>>
              /\ r.rec.abstract = <<"No abstract available">>
              /\ r.rec.authors = <<>>
              /\ r.rec.cited_by_count = F("int", 0)
              /\ facadeOut[i].items[k] = [id |-> raw.id, shape |-> "minimal", error |-> FALSE]

C20_Witness ==
  \E i \in Invs :
    /\ Done(i)
    /\ call[i].op = "search_openalex_papers"
    /\ facadeOut[i].kind = "return"
    /\ Len(facadeOut[i].items) >= 2
    /\ httpOut[i].items[2].shape = "minimal"
    /\ facadeOut[i].items[2] =
         [id |-> httpOut[i].items[2].id, shape |-> "minimal", error |-> FALSE]

\* the author search of the web form has returned its text
FormDone(i) == Done(i) /\ call[i].ui

\* C21: format_author_results, and with it search_authors_ui, renders a listing
\* for every list of author records the normalizer produced, one block per
\* record, and a record whose affiliation is null is listed with
\* 'No affiliation'.
C21_AuthorListingRenders ==
  \A i \in Invs :
    (FormDone(i) /\ toolOut[i].items # <<>>) =>
      /\ uiOut[i].kind = "listing"
      /\ Len(uiOut[i].blocks) = Len(toolOut[i].items)
      /\ \A k \in 1 .. Len(uiOut[i].blocks) :
           LET rec == AuthorRecord(toolOut[i].items[k])
           IN  ("affiliation" \in DOMAIN rec /\ rec.affiliation = Null) =>
                 uiOut[i].blocks[k].affiliation = Str(<<"No affiliation">>)

\* C22: within one _make_request call the first attempt that succeeds ends the
\* call: the call is over as soon as a response is successful, what it returns
\* is the JSON body of that response, every GET before it failed and was
\* followed by one backoff wait (so a call whose first attempt succeeds makes
\* exactly one GET), and no GET and no wait follows it.
C22_FirstSuccessEndsCall ==
  /\ [](\A i \in Invs :
          last[i].kind = "ok" =>
            /\ pc[i] = "done"
            /\ httpOut[i] = Return(HttpBody(req[i], last[i]))
            /\ gets[i] = Len(slept[i]) + 1
            /\ slept[i] = <<>> => gets[i] = 1)
  /\ [][\A i \in Invs :
          last[i].kind = "ok" =>
            \/ gets'[i] = gets[i] /\ slept'[i] = slept[i] /\ httpOut'[i] = httpOut[i]
            \/ pc'[i] = "idle"]_vars

\* a call whose first attempt failed and whose second attempt succeeded is over
\* after two GETs and one wait, a third attempt being left
C22_Witness ==
  /\ pc[1] = "done"
  /\ last[1].kind = "ok"
  /\ gets[1] = 2
  /\ slept[1] = <<1>>
  /\ retries = 2
  /\ httpOut[1].kind = "return"

\* the filter parameter the claim gives for each of the filters drawn; the
\* range of two publication years is the one it leaves open
ExpectedFilter(filters) ==
  CASE filters = <<>> -> None
    [] filters = ThreeScalars -> Some("publication_year:2023,type:article,is_oa:true")
    [] filters = TypeList -> Some("type:article+review")
    [] filters = ScalarThenList -> Some("is_oa:true,level:1+2")
    [] filters = ListThenScalar -> Some("level:1+2,is_oa:true")
    [] filters = ThreeYears -> Some("publication_year:2020+2021+2022")

\* C23: the filter parameter search_works, search_authors and search_concepts
\* send is the given filter entries in the given key order, each rendered
\* key:value and joined by commas, a list value (other than a publication_year
\* list of two elements) rendered as its elements joined by '+'; without
\* filters no filter parameter is sent.
C23_FilterParam ==
  \A i \in Invs :
    (call[i].op \in ClientOps /\ call[i].filters # YearRange) =>
      /\ req[i].filter = ExpectedFilter(call[i].filters)
      /\ \A r \in sent[i] : r.filter = ExpectedFilter(call[i].filters)

\* a GET of search_concepts carried a scalar and a list filter
C23_Witness ==
  /\ call[1].op = "search_concepts"
  /\ call[1].filters = ScalarThenList
  /\ gets[1] = 1
  /\ \E r \in sent[1] : r.filter = Some("is_oa:true,level:1+2")

\* the operations that normalize works
WorkOps == {"search_openalex_papers", "get_publication_by_doi"}

\* an inverted index the claim is about: non-empty, whitespace-free words, and
\* the position lists cover 0 .. n-1 without a collision
WellFormedIndex(index) ==
  /\ index # <<>>
  /\ \A k \in 1 .. Len(index) : index[k].word \notin {"", " "}
  /\ \A k \in 1 .. Len(index) : index[k].positions # <<>>
  /\ \A k \in 1 .. Len(index) :
        \A j1, j2 \in 1 .. Len(index[k].positions) :
          index[k].positions[j1] = index[k].positions[j2] => j1 = j2
  /\ \A k1, k2 \in 1 .. Len(index) :
        k1 # k2 =>
          /\ index[k1].word # index[k2].word
          /\ \A j1 \in 1 .. Len(index[k1].positions) :
               \A j2 \in 1 .. Len(index[k2].positions) :
                 index[k1].positions[j1] # index[k2].positions[j2]
  /\ AllPositions(index) = 0 .. (Cardinality(AllPositions(index)) - 1)

\* the token sequence an inverted index encodes
TokensOf(index) ==
  [p \in 1 .. Cardinality(AllPositions(index)) |->
     index[CHOOSE k \in 1 .. Len(index) :
             \E j \in 1 .. Len(index[k].positions) : index[k].positions[j] = p - 1].word]

\* text.split(): the maximal runs of tokens without a blank, run being the
\* run that has begun
RECURSIVE SplitRuns(_, _)
SplitRuns(text, run) ==
  IF text = <<>> THEN (IF run = "" THEN <<>> ELSE <<run>>)
  ELSE IF Head(text) = " "
  THEN (IF run = "" THEN <<>> ELSE <<run>>) \o SplitRuns(Tail(text), "")
  ELSE SplitRuns(Tail(text), run \o Head(text))

PySplit(text) == SplitRuns(text, "")

\* C24: abstract reconstruction is a left inverse of the inverted-index
\* encoding: for an index of non-empty, whitespace-free words whose position
\* lists cover 0 .. n-1 without collisions, the reconstructed text split on
\* whitespace is the original token sequence, a repeated word at each of its
\* positions.
C24_ReconstructInvertsIndex ==
  \A i \in Invs :
    (Done(i) /\ call[i].op \in WorkOps /\ facadeOut[i].kind = "return") =>
      \A sh \in {facadeOut[i].items[k].shape : k \in 1 .. Len(facadeOut[i].items)} :
        LET index == DictGet(RawWork(sh).abstract_inverted_index, F("dict", <<>>)).val
            rec == ProcessedWork[sh].rec
        IN  ("abstract" \in DOMAIN rec /\ WellFormedIndex(index)) =>
              /\ rec.abstract = reconstruct_abstract_from_inverted_index(index)
              /\ PySplit(rec.abstract) = TokensOf(index)

\* a work whose abstract repeats a word, the index listing the words in another
\* order than the text, is returned with the text "Deep learning about learning"
C24_Witness ==
  /\ Done(1)
  /\ call[1].op = "search_openalex_papers"
  /\ facadeOut[1].kind = "return"
  /\ Len(facadeOut[1].items) = 1
  /\ facadeOut[1].items[1].shape = "alt1"
  /\ ProcessedWork["alt1"].rec.abstract =
       <<"Deep", " ", "learning", " ", "about", " ", "learning">>

\* C25: clean_doi is idempotent: for every input string x, clean_doi of the
\* cleaned x is the cleaned x, so the result of clean_doi never still carries
\* https://doi.org/, http://doi.org/ or doi:.
C25_CleanDoiIdempotent ==
  \A i \in Invs :
    call[i].op = "get_publication_by_doi" =>
      LET cleaned == clean_doi(call[i].doi)
      IN  /\ req[i] = DoiEndpoint(cleaned)
          /\ clean_doi(cleaned) = cleaned
          /\ Remove(cleaned, HttpsPrefix) = cleaned
          /\ Remove(cleaned, HttpPrefix) = cleaned
          /\ Remove(cleaned, DoiPrefix) = cleaned

\* the raw record and the processed dict of a shape, for the normalizer of an
\* operation
RawOf(op, sh) ==
  IF op \in WorkOps THEN RawWork(sh)
  ELSE IF op \in {"search_openalex_authors", "OpenAlexAuthorRetriever.get_by_openalex_id"}
  THEN RawAuthor(sh)
  ELSE RawConcept(sh)

RecOf(op, sh) == Normalize(op, [shape |-> sh]).rec

\* the shapes of the entries an invocation returned from its facade
ShapesReturned(i) ==
  IF Done(i) /\ call[i].op \notin ClientOps /\ facadeOut[i].kind = "return"
  THEN {facadeOut[i].items[k].shape : k \in 1 .. Len(facadeOut[i].items)}
  ELSE {}

\* the identifier segment of the records of an operation
SegmentOf(op) ==
  IF op \in WorkOps THEN "W2741809807"
  ELSE IF op \in {"search_openalex_authors", "OpenAlexAuthorRetriever.get_by_openalex_id"}
  THEN "A5023888391"
  ELSE "C41008148"

\* the strings that are a full identifier URL, with or without a trailing slash
IsIdUrl(url, id) ==
  \/ url = <<"https://openalex.org", "/", id>>
  \/ url = <<"https://openalex.org", "/", id, "/">>
  \/ \E entity \in {"works", "authors", "concepts"} :
       url = <<"https://api.openalex.org", "/", entity, "/", id>>

\* C26: extract_openalex_id returns, for a full identifier URL, only the
\* trailing identifier segment (one letter followed by digits, an optional
\* trailing slash dropped); a bare identifier comes back unchanged, and an
\* empty input gives the empty string.
C26_ExtractOpenAlexId ==
  \A i \in Invs :
    \A sh \in ShapesReturned(i) :
      LET id == DictGet(RawOf(call[i].op, sh).id, Str(<<>>))
          rec == RecOf(call[i].op, sh)
      IN  "openalex_id" \in DOMAIN rec =>
            /\ IsIdUrl(id.val, SegmentOf(call[i].op)) =>
                  rec.openalex_id = <<SegmentOf(call[i].op)>>
            /\ id.val = <<SegmentOf(call[i].op)>> => rec.openalex_id = id.val
            /\ id.val = <<>> => rec.openalex_id = <<>>
            /\ \/ IsIdUrl(id.val, SegmentOf(call[i].op))
               \/ id.val = <<SegmentOf(call[i].op)>>
               \/ id.val = <<>>

\* an author whose id is a URL with a trailing slash was returned with the
\* bare identifier
C26_Witness ==
  /\ call[1].op = "search_openalex_authors"
  /\ ShapesReturned(1) = {"alt1"}
  /\ RawAuthor("alt1").id.val = <<"https://openalex.org", "/", "A5023888391", "/">>
  /\ ProcessedAuthor["alt1"].rec.openalex_id = <<"A5023888391">>

\* the source of a location of a raw work ({} when it has none), and whether
\* that source has a name
RawSource(w, location) == SourceOf(DictGet(w[location], EmptyDict))

HasName(source) == ~Falsy(Get(source, "display_name"))

\* C27: get_publication_venue takes the venue from the source of the primary
\* location when that source has a name, otherwise from the source of the
\* best open-access location; when neither source yields a name, every field
\* of the venue record (name, type, issn, is_oa) is null.
C27_VenueFromPrimaryOrBestOa ==
  \A i \in Invs :
    call[i].op \in WorkOps =>
      \A sh \in ShapesReturned(i) :
        LET w == RawWork(sh)
            rec == ProcessedWork[sh].rec
            primary == RawSource(w, "primary_location")
            best_oa == RawSource(w, "best_oa_location")
        IN  "venue" \in DOMAIN rec =>
              /\ HasName(primary) =>
                    rec.venue = [name |-> Get(primary, "display_name"),
                                 type |-> Get(primary, "type"),
                                 issn |-> Get(primary, "issn_l"),
                                 is_oa |-> Get(primary, "is_oa")]
              /\ (~HasName(primary) /\ HasName(best_oa)) =>
                    /\ rec.venue.name = Get(best_oa, "display_name")
                    /\ rec.venue.type = Get(best_oa, "type")
              /\ (~HasName(primary) /\ ~HasName(best_oa)) => rec.venue = NoVenue

\* the operations that normalize authors or concepts
MetricOps == (SearchTools \cup FacadeOps) \ {"search_openalex_papers"}

\* h hundredths is cited_by_count / works_count rounded to two decimals
IsRounded(h, cited_by_count, works_count) ==
  /\ 2 * (h * works_count - 100 * cited_by_count) <= works_count
  /\ 2 * (100 * cited_by_count - h * works_count) <= works_count

\* C28: in every author and concept record metrics.citations_per_work is 0
\* when works_count is 0 and otherwise cited_by_count / works_count rounded to
\* two decimals; a record without works is processed without a division
\* fault (it has its metrics and no error key).
C28_CitationsPerWork ==
  \A i \in Invs :
    call[i].op \in MetricOps =>
      \A sh \in ShapesReturned(i) :
        LET raw == RawOf(call[i].op, sh)
            rec == RecOf(call[i].op, sh)
            works_count == DictGet(raw.works_count, IntV(0)).val
            cited_by_count == DictGet(raw.cited_by_count, IntV(0)).val
        IN  /\ ("metrics" \in DOMAIN rec /\ works_count = 0) =>
                 rec.metrics.citations_per_work = 0
            /\ ("metrics" \in DOMAIN rec /\ works_count # 0) =>
                 IsRounded(rec.metrics.citations_per_work, cited_by_count, works_count)
            /\ sh \in AltShapes => "metrics" \in DOMAIN rec /\ "error" \notin DOMAIN rec

\* an author without works (and with citations) was returned with 0 citations
\* per work
C28_Witness ==
  /\ call[1].op = "search_openalex_authors"
  /\ ShapesReturned(1) = {"alt1"}
  /\ RawAuthor("alt1").works_count = IntV(0)
  /\ RawAuthor("alt1").cited_by_count = IntV(5)
  /\ ProcessedAuthor["alt1"].rec.metrics.citations_per_work = 0

\* the operations that normalize concepts
ConceptOps ==
  ConceptSearchOps \cup {"OpenAlexConceptRetriever.get_by_openalex_id"}

\* C29: in every concept record the normalizer produces, metrics.breadth_score
\* equals the number of entries of that record's related_concepts sequence.
C29_BreadthIsRelatedCount ==
  \A i \in Invs :
    call[i].op \in ConceptOps =>
      \A sh \in ShapesReturned(i) :
        LET rec == ProcessedConcept[sh].rec
        IN  "metrics" \in DOMAIN rec =>
              rec.metrics.breadth_score = Len(rec.related_concepts)

\* C30: for every integer retry count, 0 and negative ones included,
\* _make_request never returns without a value: what it returns is the JSON
\* body of a successful response to a GET it sent, and every other outcome is
\* a raised exception.
C30_ReturnsBodyOrRaises ==
  \A i \in Invs :
    Done(i) =>
      /\ httpOut[i].kind \in {"return", "raise"}
      /\ httpOut[i].kind = "return" =>
           /\ ~httpOut[i].none
           /\ gets[i] >= 1
           /\ req[i] \in sent[i]
           /\ last[i].kind = "ok"
           /\ httpOut[i] = Return(HttpBody(req[i], last[i]))
      /\ httpOut[i].kind = "raise" =>
           /\ gets[i] >= 1
           /\ last[i].kind # "ok"
           /\ httpOut[i] = HttpFailure(last[i])

====
